---- MODULE Spec2Model ----
(***************************************************************************)
(* Model of telecom_churn_analysis.ipynb: the preprocessing cell, the      *)
(* SMOTE cell, the train/evaluate loop and the single-client inference     *)
(* helpers preprocess_input / predict_churn_for_client.                    *)
(*                                                                         *)
(* A DataFrame is a record [cols, rows]: cols is the ordered column list,  *)
(* rows a sequence of functions from column name to cell value.  A cell    *)
(* is a record [k, n, d, s]: a number n/d (k = "num"), a string s          *)
(* (k = "str") or a missing value (k = "nan").                             *)
(***************************************************************************)
EXTENDS Integers, Sequences, FiniteSets, TLC

VARIABLES pc, csv, df, X, y_resampled, fitted, evaluated, error,
          new_client_raw, reference_columns, calls

vars == <<pc, csv, df, X, y_resampled, fitted, evaluated, error,
          new_client_raw, reference_columns, calls>>

----------------------------------------------------------------------------
(* Cell values *)

NaN == [k |-> "nan", n |-> 0, d |-> 1, s |-> ""]

Str(x) == [k |-> "str", n |-> 0, d |-> 1, s |-> x]

RECURSIVE Gcd(_, _)
Gcd(a, b) == IF b = 0 THEN a ELSE Gcd(b, a % b)

\* a/b as a reduced fraction, b > 0
Rat(a, b) == LET g == Gcd(a, b) IN [k |-> "num", n |-> a \div g, d |-> b \div g, s |-> ""]

Num(a) == Rat(a, 1)

\* a tenure column used as it is
ReplaceNothing(v) == v

\* Series.replace(0, np.nan)
ReplaceZeroWithNaN(v) == IF v.k = "num" /\ v.n = 0 THEN NaN ELSE v

Inf == [k |-> "inf", n |-> 0, d |-> 1, s |-> ""]

\* Series / Series, element by element: a missing operand gives a missing
\* result; a zero divisor gives inf (nan for 0/0), never an exception
Divide(a, b) ==
    IF a.k # "num" \/ b.k # "num" THEN NaN
    ELSE IF b.n = 0 THEN (IF a.n = 0 THEN NaN ELSE Inf)
    ELSE Rat(a.n * b.d, a.d * b.n)

\* Series.fillna('unknown')
FillUnknown(v) == IF v.k = "nan" THEN Str("unknown") ELSE v

\* lambda x: 1 if x == 'month-to-month' else 0
IsShortContract(v) == IF v = Str("month-to-month") THEN Num(1) ELSE Num(0)

\* {'No': 0, 'Yes': 1}; Series.map gives NaN for any other value
ChurnMap(v) ==
    IF v = Str("No") THEN Num(0) ELSE IF v = Str("Yes") THEN Num(1) ELSE NaN

----------------------------------------------------------------------------
(* DataFrame operations *)

InSeq(x, s) == \E i \in 1..Len(s) : s[i] = x

Frame(cols, rows) == [cols |-> cols, rows |-> rows]

HasColumn(frame, c) == InSeq(c, frame.cols)

\* frame[c]: the column as a Series
Column(frame, c) == [i \in 1..Len(frame.rows) |-> frame.rows[i][c]]

\* a scalar broadcast to a Series of the frame's length
Broadcast(frame, v) == [i \in 1..Len(frame.rows) |-> v]

\* frame[c] = series: an existing column keeps its place, a new one is appended
SetColumn(frame, c, series) ==
    Frame(IF HasColumn(frame, c) THEN frame.cols ELSE Append(frame.cols, c),
          [i \in 1..Len(frame.rows) |->
             [x \in DOMAIN frame.rows[i] \cup {c} |->
                IF x = c THEN series[i] ELSE frame.rows[i][x]]])

\* frame[cols]: exactly these columns, in this order
SelectColumns(frame, cols) ==
    Frame(cols,
          [i \in 1..Len(frame.rows) |->
             [x \in {cols[j] : j \in 1..Len(cols)} |-> frame.rows[i][x]]])

\* frame.drop(names, axis=1)
DropColumns(frame, names) ==
    SelectColumns(frame, SelectSeq(frame.cols, LAMBDA c : c \notin names))

\* The category strings of the model in sorted (lexicographic) order
LexOrder == <<"dsl", "fiber optic", "month-to-month", "one-year",
              "satellite", "two-year", "unknown">>

\* The sorted distinct non-missing values of a column
Levels(frame, c) ==
    SelectSeq(LexOrder,
              LAMBDA v : \E i \in 1..Len(frame.rows) : frame.rows[i][c] = Str(v))

DummyName(c, v) == c \o "_" \o v

\* drop_first=True: the first level gets no indicator column
DummyLevels(frame, c) ==
    IF Len(Levels(frame, c)) <= 1 THEN <<>> ELSE Tail(Levels(frame, c))

DummyColumns(frame, c) ==
    [j \in 1..Len(DummyLevels(frame, c)) |-> DummyName(c, DummyLevels(frame, c)[j])]

\* pd.get_dummies(frame, columns=[c1, c2], drop_first=True)
GetDummies(frame, c1, c2) ==
    LET kept == SelectSeq(frame.cols, LAMBDA c : c \notin {c1, c2})
        l1 == DummyLevels(frame, c1)
        l2 == DummyLevels(frame, c2)
        n1 == DummyColumns(frame, c1)
        n2 == DummyColumns(frame, c2)
        cols == kept \o n1 \o n2
        names == {cols[j] : j \in 1..Len(cols)}
        Cell(row, x) ==
            IF \E j \in 1..Len(n1) : n1[j] = x
            THEN IF \E j \in 1..Len(n1) : n1[j] = x /\ row[c1] = Str(l1[j])
                 THEN Num(1) ELSE Num(0)
            ELSE IF \E j \in 1..Len(n2) : n2[j] = x
            THEN IF \E j \in 1..Len(n2) : n2[j] = x /\ row[c2] = Str(l2[j])
                 THEN Num(1) ELSE Num(0)
            ELSE row[x]
    IN Frame(cols,
             [i \in 1..Len(frame.rows) |-> [x \in names |-> Cell(frame.rows[i], x)]])

----------------------------------------------------------------------------
(* Load and Preprocess Data cell *)

\* df after the preprocessing cell, from the table read_csv returned
FeatureEngineering(frame) ==
    LET a == SetColumn(frame, "internet_service",
                       [i \in 1..Len(frame.rows) |->
                          FillUnknown(Column(frame, "internet_service")[i])])
        b == SetColumn(a, "avg_monthly_charge",
                       [i \in 1..Len(a.rows) |->
                          Divide(Column(a, "total_charges")[i],
                                 ReplaceZeroWithNaN(Column(a, "tenure")[i]))])
        c == SetColumn(b, "is_short_contract",
                       [i \in 1..Len(b.rows) |->
                          IsShortContract(Column(b, "contract_type")[i])])
        d == GetDummies(c, "contract_type", "internet_service")
    IN SetColumn(d, "churn", [i \in 1..Len(d.rows) |-> ChurnMap(Column(d, "churn")[i])])

\* X = df.drop(['customer_id', 'churn'], axis=1)
FeatureTable(frame) == DropColumns(frame, {"customer_id", "churn"})

----------------------------------------------------------------------------
(* Split Data and Apply SMOTE cell *)

\* SMOTE() is built with the library default k_neighbors
K_NEIGHBORS == 5

RECURSIVE SumReps(_, _, _, _)
SumReps(frame, reps, label, i) ==
    IF i = 0 THEN 0
    ELSE SumReps(frame, reps, label, i - 1)
         + (IF frame.rows[i]["churn"] = Num(label) THEN reps[i] ELSE 0)

\* y.value_counts(): row i of the table stands for reps[i] customers
ClassCount(frame, reps, label) == SumReps(frame, reps, label, Len(frame.rows))

Max(a, b) == IF a >= b THEN a ELSE b

Min(a, b) == IF a <= b THEN a ELSE b

HasNaN(frame) ==
    \E i \in 1..Len(frame.rows) : \E c \in DOMAIN frame.rows[i] : frame.rows[i][c].k = "nan"

\* fit_resample raises when X holds a missing value, when y has one class, or
\* when the class to oversample has fewer than k_neighbors + 1 members
SmoteMustFail(features, n0, n1) ==
    \/ HasNaN(features)
    \/ n0 = 0
    \/ n1 = 0
    \/ (n0 # n1 /\ Min(n0, n1) <= K_NEIGHBORS)

\* the class counts of y_resampled: every class raised to the majority count
Resample(n0, n1) == [defined |-> TRUE, n0 |-> Max(n0, n1), n1 |-> Max(n0, n1)]

Undefined == [defined |-> FALSE, n0 |-> 0, n1 |-> 0]

NoError == [kind |-> "none", cell |-> "", key |-> ""]

Raise(kind, cell, key) == [kind |-> kind, cell |-> cell, key |-> key]

----------------------------------------------------------------------------
(* Train Models and Evaluate cell *)

\* models.items(): the dict's insertion order
ModelOrder == <<"Random Forest", "Logistic Regression", "Gradient Boosting">>

\* A fitted estimator: what fit(X_train, y_train) leaves in the object. The
\* seeds are fixed, so the fitted parameters are a function of the data.
FitModel(name, features, y) ==
    [name |-> name, features |-> features, theta |-> y.n0 + Len(name)]

----------------------------------------------------------------------------
(* Predict Churn for a New Client cells *)

NoFrame == Frame(<<>>, <<>>)

None == [given |-> FALSE, list |-> <<>>]

List(cols) == [given |-> TRUE, list |-> cols]

Returned(arg, frame) == [arg |-> arg, error |-> NoError, frame |-> frame]

\* the exception swallowed and an empty frame returned in its place
RaisedAsEmpty(arg, kind, key) == Returned(arg, NoFrame)

\* the exception a statement of preprocess_input raises
Raised(arg, kind, key) ==
    [arg |-> arg, error |-> Raise(kind, "preprocess_input", key), frame |-> NoFrame]

\* a missing column filled with a missing value
NaNColumn(frame, c) == SetColumn(frame, c, Broadcast(frame, NaN))

\* new_client[col] = 0
ZeroColumn(frame, c) == SetColumn(frame, c, Broadcast(frame, Num(0)))

\* for col in reference_columns: if col not in new_client.columns: new_client[col] = 0
RECURSIVE AddMissingColumns(_, _, _)
AddMissingColumns(frame, cols, j) ==
    IF j > Len(cols) THEN frame
    ELSE AddMissingColumns(
           IF HasColumn(frame, cols[j]) THEN frame ELSE ZeroColumn(frame, cols[j]),
           cols, j + 1)

\* the frame returned without the final column selection
AlignNoSelect(frame, cols) == AddMissingColumns(frame, cols, 1)

\* the loop over reference_columns, then new_client[reference_columns]
AlignToReference(frame, cols) == SelectColumns(AddMissingColumns(frame, cols, 1), cols)

\* None taken for an empty list
IterNeverRaises(refs) == FALSE

\* `for col in reference_columns` raises TypeError when the list is None
IterRaises(refs) == ~refs.given

\* preprocess_input(new_client, reference_columns). arg is the caller's frame
\* as the call leaves it (the three column statements write to it in place);
\* frame is the returned frame, error the exception raised instead.
preprocess_input(new_client, refs) ==
    IF ~HasColumn(new_client, "internet_service")
    THEN Raised(new_client, "KeyError", "internet_service")
    ELSE
    LET a == SetColumn(new_client, "internet_service",
                       [i \in 1..Len(new_client.rows) |->
                          FillUnknown(Column(new_client, "internet_service")[i])])
    IN
    IF ~HasColumn(a, "total_charges") THEN Raised(a, "KeyError", "total_charges")
    ELSE IF ~HasColumn(a, "tenure") THEN Raised(a, "KeyError", "tenure")
    ELSE
    LET b == SetColumn(a, "avg_monthly_charge",
                       [i \in 1..Len(a.rows) |->
                          Divide(Column(a, "total_charges")[i],
                                 ReplaceZeroWithNaN(Column(a, "tenure")[i]))])
    IN
    IF ~HasColumn(b, "contract_type") THEN Raised(b, "KeyError", "contract_type")
    ELSE
    LET c == SetColumn(b, "is_short_contract",
                       [i \in 1..Len(b.rows) |->
                          IsShortContract(Column(b, "contract_type")[i])])
        d == GetDummies(c, "contract_type", "internet_service")
    IN
    IF IterRaises(refs) THEN Raised(c, "TypeError", "reference_columns")
    ELSE Returned(c, AlignToReference(d, refs.list))

RECURSIVE SumCells(_, _, _)
SumCells(frame, cols, j) ==
    IF j = 0 THEN 0
    ELSE SumCells(frame, cols, j - 1) + j * (frame.rows[1][cols[j]].n + frame.rows[1][cols[j]].d)

\* model.predict_proba(frame)[:, 1][0], in hundredths of a percent. The
\* estimator validates its input: as many columns as it was fitted on, at
\* least one, none missing.
predict_proba(model, frame) ==
    IF Len(frame.cols) = 0 \/ Len(frame.cols) # Len(model.features) \/ HasNaN(frame)
    THEN [error |-> Raise("ValueError", "predict_proba", ""), prob |-> 0]
    ELSE [error |-> NoError,
          prob |-> (model.theta * 37 + SumCells(frame, frame.cols, Len(frame.cols)) * 101) % 10001]

\* A DataFrame object: obj is the object's identity, frame its content
Object(obj, frame) == [obj |-> obj, frame |-> frame]

\* the caller's object passed on as it is
Alias(o) == o

\* new_client_raw.copy(): a new object with the same content
Copy(o) == Object("copy", o.frame)

\* predict_churn_for_client(model, new_client_raw, reference_columns): raw is
\* the caller's frame after the call, aligned the frame handed to the model,
\* modelCalled whether predict_proba was reached, text/prob the returned string
predict_churn_for_client(model, raw, refs) ==
    LET passed == Copy(Object("new_client_raw", raw))
        pre == preprocess_input(passed.frame, refs)
        \* preprocess_input writes to the object it was passed
        rawAfter == IF passed.obj = "new_client_raw" THEN pre.arg ELSE raw
        out == predict_proba(model, pre.frame)
    IN IF pre.error.kind # "none"
       THEN [raw |-> rawAfter, error |-> pre.error, aligned |-> NoFrame,
             modelCalled |-> FALSE, text |-> "", prob |-> 0]
       ELSE IF out.error.kind # "none"
       THEN [raw |-> rawAfter, error |-> out.error, aligned |-> pre.frame,
             modelCalled |-> TRUE, text |-> "", prob |-> 0]
       ELSE [raw |-> rawAfter, error |-> NoError, aligned |-> pre.frame,
             modelCalled |-> TRUE, text |-> "Customer Churn Probability", prob |-> out.prob]

----------------------------------------------------------------------------
(* Inputs *)

\* rows a CSV holds at most
MaxRows == 3

\* calls of predict_churn_for_client on one record
MaxCalls == 2

RawColumns == <<"customer_id", "tenure", "total_charges", "contract_type",
                "internet_service", "churn">>

ExtraColumns == <<"customer_id", "tenure", "total_charges", "monthly_charges",
                  "contract_type", "internet_service", "churn">>

\* One CSV line; reps is the number of customers with these values
Line(tenure, charges, contract, internet, churn, reps) ==
    [tenure |-> tenure, charges |-> charges, contract |-> contract,
     internet |-> internet, churn |-> churn, reps |-> reps]

TrainLines ==
    { Line(5, 250, "month-to-month", Str("fiber optic"), "No", 6),
      Line(0, 100, "one-year", Str("dsl"), "Yes", 6),
      Line(5, 100, "two-year", NaN, "Yes", 1),
      Line(2, 250, "month-to-month", Str("dsl"), "Yes", 6),
      Line(3, 250, "one-year", Str("fiber optic"), "Yes", 6),
      Line(4, 250, "two-year", Str("unknown"), "No", 6) }

CsvRow(line, id) ==
    [c \in {"customer_id", "tenure", "total_charges", "monthly_charges",
            "contract_type", "internet_service", "churn"} |->
       CASE c = "customer_id" -> Num(id)
         [] c = "tenure" -> Num(line.tenure)
         [] c = "total_charges" -> Num(line.charges)
         [] c = "monthly_charges" -> Num(70)
         [] c = "contract_type" -> Str(line.contract)
         [] c = "internet_service" -> line.internet
         [] c = "churn" -> Str(line.churn)]

\* pd.read_csv: the table of a file with these lines and these columns
ReadCsv(lines, cols) ==
    [frame |-> SelectColumns(Frame(ExtraColumns,
                                   [i \in 1..Len(lines) |-> CsvRow(lines[i], i)]), cols),
     reps |-> [i \in 1..Len(lines) |-> lines[i].reps]]

LineSeqs == UNION { [1..n -> TrainLines] : n \in 1..MaxRows }

Tables == { ReadCsv(l, c) : l \in LineSeqs, c \in {RawColumns, ExtraColumns} }

NoTable == [frame |-> NoFrame, reps |-> <<>>]


ClientColumns == <<"tenure", "total_charges", "monthly_charges", "contract_type",
                   "internet_service">>

\* pd.DataFrame([{...}]): one row holding the given fields
ClientFrame(cols, tenure, charges, contract, internet) ==
    SelectColumns(
        Frame(ClientColumns,
              <<[c \in {ClientColumns[j] : j \in 1..Len(ClientColumns)} |->
                   CASE c = "tenure" -> Num(tenure)
                     [] c = "total_charges" -> Num(charges)
                     [] c = "monthly_charges" -> Num(70)
                     [] c = "contract_type" -> Str(contract)
                     [] c = "internet_service" -> internet]>>),
        cols)

\* the record of the example cell
ExampleClient ==
    ClientFrame(<<"tenure", "total_charges", "contract_type", "internet_service">>,
                5, 250, "month-to-month", Str("fiber optic"))

\* a customer who has just signed up
NewCustomer ==
    ClientFrame(<<"tenure", "total_charges", "contract_type", "internet_service">>,
                0, 250, "one-year", Str("dsl"))

\* the customers of the training table, as inference records
TableClients(table) ==
    { Frame(DropColumns(table.frame, {"customer_id", "churn"}).cols,
            <<DropColumns(table.frame, {"customer_id", "churn"}).rows[i]>>) :
        i \in 1..Len(table.frame.rows) }

ClientColumnChoices ==
    { SelectSeq(ClientColumns, LAMBDA c : c \in S) :
        S \in SUBSET {ClientColumns[j] : j \in 1..Len(ClientColumns)} }

RawClients ==
    { ClientFrame(cols, t, 250, c, i) :
        cols \in ClientColumnChoices, t \in {0, 3, 5},
        c \in {"month-to-month", "one-year", "two-year"},
        i \in {NaN, Str("dsl"), Str("fiber optic"), Str("satellite")} }

\* the training tables the adapter is exercised against
AdapterLineSeqs ==
    { <<Line(2, 250, "month-to-month", Str("dsl"), "Yes", 6),
        Line(3, 250, "one-year", Str("fiber optic"), "Yes", 6),
        Line(4, 250, "two-year", Str("unknown"), "No", 6)>>,
      <<Line(5, 250, "month-to-month", Str("fiber optic"), "No", 6),
        Line(2, 250, "month-to-month", Str("dsl"), "Yes", 6)>>,
      <<Line(5, 250, "month-to-month", Str("fiber optic"), "No", 6),
        Line(3, 250, "one-year", Str("fiber optic"), "Yes", 6)>> }

AdapterTables == { ReadCsv(l, c) : l \in AdapterLineSeqs, c \in {RawColumns, ExtraColumns} }

----------------------------------------------------------------------------
(* The notebook, cell by cell. An exception ends the run: pc = "aborted". *)

Init ==
    /\ pc = "load"
    /\ csv = NoTable
    /\ df = NoFrame
    /\ X = NoFrame
    /\ y_resampled = Undefined
    /\ fitted = <<>>
    /\ evaluated = <<>>
    /\ error = NoError
    /\ new_client_raw = NoFrame
    /\ reference_columns = None
    /\ calls = <<>>

\* Load and Preprocess Data
LoadAndPreprocess ==
    /\ pc = "load"
    /\ \E t \in Tables :
         /\ csv' = t
         /\ df' = FeatureEngineering(t.frame)
    /\ pc' = "split"
    /\ UNCHANGED <<X, y_resampled, fitted, evaluated, error, new_client_raw,
                   reference_columns, calls>>

\* the exception of fit_resample swallowed and the run carried on
SmoteSwallowed ==
    /\ error' = Raise("ValueError", "smote", "")
    /\ pc' = "train"

\* the exception of fit_resample ends the run
SmoteRaised ==
    /\ error' = Raise("ValueError", "smote", "")
    /\ pc' = "aborted"

\* Split Data and Apply SMOTE: fit_resample returns
SmoteResamples ==
    /\ pc = "split"
    /\ ~SmoteMustFail(FeatureTable(df), ClassCount(df, csv.reps, 0),
                      ClassCount(df, csv.reps, 1))
    /\ X' = FeatureTable(df)
    /\ y_resampled' = Resample(ClassCount(df, csv.reps, 0), ClassCount(df, csv.reps, 1))
    /\ pc' = "train"
    /\ UNCHANGED <<csv, df, fitted, evaluated, error, new_client_raw,
                   reference_columns, calls>>

\* Split Data and Apply SMOTE: fit_resample raises
SmoteRaises ==
    /\ pc = "split"
    /\ SmoteMustFail(FeatureTable(df), ClassCount(df, csv.reps, 0),
                     ClassCount(df, csv.reps, 1))
    /\ X' = FeatureTable(df)
    /\ SmoteRaised
    /\ UNCHANGED <<csv, df, y_resampled, fitted, evaluated, new_client_raw,
                   reference_columns, calls>>

\* the exception of model.fit swallowed and the iteration carried on
FitSwallowed(name) ==
    /\ error' = Raise("FitError", "train", name)
    /\ pc' = IF Len(evaluated) + 1 = Len(ModelOrder) THEN "new_client" ELSE "train"
    /\ fitted' = Append(fitted, FitModel(name, X.cols, y_resampled))
    /\ evaluated' = Append(evaluated, name)

\* what the loop does when model.fit raises for the variant `name`
FitRaised(name) ==
    /\ error' = Raise("FitError", "train", name)
    /\ pc' = "aborted"
    /\ UNCHANGED <<fitted, evaluated>>

\* One iteration of the loop over models.items(): fit, predict, report, cross-validate
FitAndEvaluate ==
    /\ pc = "train"
    /\ Len(evaluated) < Len(ModelOrder)
    /\ LET name == ModelOrder[Len(evaluated) + 1] IN
         /\ fitted' = Append(fitted, FitModel(name, X.cols, y_resampled))
         /\ evaluated' = Append(evaluated, name)
    /\ pc' = IF Len(evaluated) + 1 = Len(ModelOrder) THEN "new_client" ELSE "train"
    /\ UNCHANGED <<csv, df, X, y_resampled, error, new_client_raw,
                   reference_columns, calls>>

\* One iteration of the loop in which model.fit raises
FitFails ==
    /\ pc = "train"
    /\ Len(evaluated) < Len(ModelOrder)
    /\ FitRaised(ModelOrder[Len(evaluated) + 1])
    /\ UNCHANGED <<csv, df, X, y_resampled, new_client_raw, reference_columns, calls>>

\* new_client = pd.DataFrame([...]); reference_columns = list(X.columns)
NewClientCell ==
    /\ pc = "new_client"
    /\ new_client_raw' \in {ExampleClient, NewCustomer} \cup TableClients(csv)
    /\ reference_columns' = List(X.cols)
    /\ pc' = "call"
    /\ UNCHANGED <<csv, df, X, y_resampled, fitted, evaluated, error, calls>>

\* models["Gradient Boosting"]
Model(name) == fitted[CHOOSE i \in 1..Len(fitted) : fitted[i].name = name]

\* result = predict_churn_for_client(models["Gradient Boosting"], new_client, reference_columns)
PredictCell ==
    /\ pc = "call"
    /\ Len(calls) < MaxCalls
    /\ LET r == predict_churn_for_client(Model("Gradient Boosting"), new_client_raw,
                                         reference_columns) IN
         /\ calls' = Append(calls, [input |-> new_client_raw, error |-> r.error,
                                    aligned |-> r.aligned, modelCalled |-> r.modelCalled,
                                    text |-> r.text, prob |-> r.prob])
         /\ new_client_raw' = r.raw
         /\ error' = r.error
         /\ pc' = IF r.error.kind = "none" THEN "call" ELSE "aborted"
    /\ UNCHANGED <<csv, df, X, y_resampled, fitted, evaluated, reference_columns>>

Next ==
    \/ LoadAndPreprocess
    \/ SmoteResamples
    \/ SmoteRaises
    \/ FitAndEvaluate
    \/ FitFails
    \/ NewClientCell
    \/ PredictCell

Spec == Init /\ [][Next]_vars

----------------------------------------------------------------------------
(* The inference adapter alone: the notebook has run up to the training      *)
(* loop on one of AdapterTables, and predict_churn_for_client is called with *)
(* any record and with the training schema, an empty list or None.           *)

InitAdapter ==
    /\ pc = "call"
    /\ csv \in AdapterTables
    /\ df = FeatureEngineering(csv.frame)
    /\ X = FeatureTable(df)
    /\ y_resampled = Resample(ClassCount(df, csv.reps, 0), ClassCount(df, csv.reps, 1))
    /\ fitted = [i \in 1..Len(ModelOrder) |-> FitModel(ModelOrder[i], X.cols, y_resampled)]
    /\ evaluated = ModelOrder
    /\ error = NoError
    /\ new_client_raw \in RawClients
    /\ reference_columns \in {List(X.cols), List(<<>>), None}
    /\ calls = <<>>

NextAdapter == PredictCell

SpecAdapter == InitAdapter /\ [][NextAdapter]_vars

----------------------------------------------------------------------------
(* Properties *)

Names(cols) == {cols[j] : j \in 1..Len(cols)}

RequiredFields == {"tenure", "total_charges", "contract_type", "internet_service"}

Complete(frame) == RequiredFields \subseteq Names(frame.cols)

AllIndicators ==
    { DummyName(c, LexOrder[j]) : c \in {"contract_type", "internet_service"},
                                  j \in 1..Len(LexOrder) }

Indicators(cols) == Names(cols) \cap AllIndicators

\* the schema of contract types {month-to-month, one-year, two-year} and
\* internet services {dsl, fiber optic, unknown}
FullSchema(cols) ==
    Indicators(cols) = {"contract_type_one-year", "contract_type_two-year",
                        "internet_service_fiber optic", "internet_service_unknown"}

\* avg is total/tenure for a positive tenure and missing for tenure 0
AvgChargeOk(tenure, total, avg) ==
    IF tenure.n = 0 THEN avg = NaN
    ELSE avg.k = "num" /\ avg.n * tenure.n * total.d = total.n * avg.d * tenure.d

\* C1: the example record {tenure 5, total_charges 250, month-to-month, fiber
\* optic}, scored against the full schema, gives is_short_contract = 1,
\* avg_monthly_charge = 50, the fiber optic indicator 1, every other indicator
\* 0, and a probability in [0,1].
C1_EndToEndScenario ==
    \A k \in 1..Len(calls) :
       (calls[k].input = ExampleClient /\ FullSchema(reference_columns.list)) =>
          /\ calls[k].error.kind = "none"
          /\ calls[k].aligned.rows[1]["is_short_contract"] = Num(1)
          /\ calls[k].aligned.rows[1]["avg_monthly_charge"] = Num(50)
          /\ \A c \in Indicators(reference_columns.list) :
                calls[k].aligned.rows[1][c] =
                   IF c = "internet_service_fiber optic" THEN Num(1) ELSE Num(0)
          /\ calls[k].prob \in 0..10000

\* C2: for a customer of the training table, the row preprocess_input builds
\* from the customer's raw record equals, over the reference columns, the
\* customer's row of X built by the preprocessing cell.
C2_SameRowOnBothPaths ==
    \A k \in 1..Len(calls) : \A i \in 1..Len(X.rows) :
       (calls[k].input = Frame(DropColumns(csv.frame, {"customer_id", "churn"}).cols,
                               <<DropColumns(csv.frame, {"customer_id", "churn"}).rows[i]>>)
        /\ calls[k].error.cell # "preprocess_input") =>
          \A c \in Names(reference_columns.list) :
             calls[k].aligned.rows[1][c] = X.rows[i][c]

\* C3: the frame preprocess_input returns has exactly the reference columns,
\* in the reference order, whatever categories the record holds.
C3_SchemaAlignment ==
    \A k \in 1..Len(calls) :
       calls[k].error.cell # "preprocess_input" =>
          /\ calls[k].aligned.cols = reference_columns.list
          /\ Len(calls[k].aligned.cols) = Len(reference_columns.list)
          /\ Len(calls[k].aligned.rows) = 1
          /\ DOMAIN calls[k].aligned.rows[1] = Names(reference_columns.list)

C3_Witness ==
    \E k \in 1..Len(calls) :
       /\ calls[k].error.kind = "none"
       /\ calls[k].input.rows[1]["internet_service"] = Str("satellite")
       /\ Len(reference_columns.list) >= 5
       /\ calls[k].aligned.cols = reference_columns.list

\* C4 as stated: after a variant's fit has failed, the run is not aborted and,
\* once the run has ended, every other variant has been evaluated.
C4_FailureIsolated ==
    error.kind = "FitError" =>
       /\ pc # "aborted"
       /\ (~ENABLED Next) =>
             \A j \in 1..Len(ModelOrder) :
                ModelOrder[j] # error.key => InSeq(ModelOrder[j], evaluated)

\* C4 amended: a failing fit ends the loop. The variants before the failing
\* one in the dict's order are fitted and evaluated, the failing one and those
\* after it are not, and no further step of the run is taken.
C4_FailureEndsRun ==
    error.kind = "FitError" =>
       /\ pc = "aborted"
       /\ ~ENABLED Next
       /\ error.key = ModelOrder[Len(evaluated) + 1]
       /\ evaluated = SubSeq(ModelOrder, 1, Len(evaluated))
       /\ Len(fitted) = Len(evaluated)
       /\ \A j \in 1..Len(fitted) : fitted[j].name = evaluated[j]

C4_Witness ==
    /\ error.kind = "FitError"
    /\ error.key = "Logistic Regression"
    /\ evaluated = <<"Random Forest">>

\* C5: a record lacking one of tenure, total_charges, contract_type,
\* internet_service makes the call fail with a KeyError naming a field the
\* record lacks; the model is not called and no probability string is returned.
C5_MissingFieldFails ==
    \A k \in 1..Len(calls) :
       ~Complete(calls[k].input) =>
          /\ calls[k].error.kind = "KeyError"
          /\ calls[k].error.key \in RequiredFields \ Names(calls[k].input.cols)
          /\ ~calls[k].modelCalled
          /\ calls[k].text = ""

C5_Witness ==
    \E k \in 1..Len(calls) :
       /\ Names(calls[k].input.cols) = RequiredFields \ {"contract_type"}
       /\ calls[k].error = Raise("KeyError", "preprocess_input", "contract_type")
       /\ reference_columns.given
       /\ reference_columns.list # <<>>

\* C6 as stated: with the reference-column list absent or empty the call fails
\* in preprocess_input, before the model is called.
C6_NoSchemaFailsFast ==
    \A k \in 1..Len(calls) :
       (~reference_columns.given \/ reference_columns.list = <<>>) =>
          /\ calls[k].error.cell = "preprocess_input"
          /\ ~calls[k].modelCalled

\* C6 amended: for a record holding its four required fields, an absent list
\* (None) makes preprocess_input raise a TypeError before the model is called;
\* an empty list does not make preprocess_input fail: it returns a frame
\* without columns, which is handed to the model's predict_proba.
C6_NoneFailsEmptyPasses ==
    \A k \in 1..Len(calls) :
       Complete(calls[k].input) =>
          /\ ~reference_columns.given =>
                /\ calls[k].error = Raise("TypeError", "preprocess_input", "reference_columns")
                /\ ~calls[k].modelCalled
          /\ (reference_columns.given /\ reference_columns.list = <<>>) =>
                /\ calls[k].error.cell # "preprocess_input"
                /\ calls[k].aligned.cols = <<>>
                /\ calls[k].modelCalled

C6_Witness ==
    \E k \in 1..Len(calls) :
       /\ Complete(calls[k].input)
       /\ reference_columns = List(<<>>)
       /\ calls[k].modelCalled
       /\ calls[k].aligned.cols = <<>>

\* C7: on the training path and on the inference path, avg_monthly_charge is
\* missing for tenure 0 and total_charges / tenure otherwise, and no step
\* raises a division error.
C7_TenureZeroPolicy ==
    /\ \A i \in 1..Len(df.rows) :
          AvgChargeOk(csv.frame.rows[i]["tenure"], csv.frame.rows[i]["total_charges"],
                      df.rows[i]["avg_monthly_charge"])
    /\ \A k \in 1..Len(calls) :
          /\ calls[k].error.kind # "ZeroDivisionError"
          /\ calls[k].error.cell # "preprocess_input" =>
                AvgChargeOk(calls[k].input.rows[1]["tenure"],
                            calls[k].input.rows[1]["total_charges"],
                            calls[k].aligned.rows[1]["avg_monthly_charge"])
    /\ error.kind # "ZeroDivisionError"

C7_Witness ==
    /\ \E i \in 1..Len(df.rows) :
          /\ csv.frame.rows[i]["tenure"] = Num(3)
          /\ df.rows[i]["avg_monthly_charge"] = Rat(250, 3)
    /\ \E k \in 1..Len(calls) :
          /\ calls[k].input.rows[1]["tenure"] = Num(0)
          /\ calls[k].input.rows[1]["total_charges"] = Num(250)
          /\ calls[k].aligned.rows[1]["avg_monthly_charge"] = NaN

\* C8: when the balancer fails, no model has been fitted and none is fitted
\* afterwards; every fitted model was fitted on the balanced data.
C8_BalancingErrorBeforeTraining ==
    /\ error.cell = "smote" =>
          /\ fitted = <<>>
          /\ evaluated = <<>>
          /\ ~y_resampled.defined
          /\ ~ENABLED FitAndEvaluate
          /\ ~ENABLED FitFails
    /\ fitted # <<>> =>
          /\ y_resampled.defined
          /\ y_resampled.n0 = y_resampled.n1

C8_Witness ==
    /\ error.cell = "smote"
    /\ pc = "aborted"
    /\ ClassCount(df, csv.reps, 1) = 1
    /\ ClassCount(df, csv.reps, 0) = 6

\* C9: two calls on the same record object give the same aligned row and the
\* same probability, and a call leaves the caller's record as it was.
C9_Idempotent ==
    \A k \in 1..Len(calls) :
       /\ new_client_raw = calls[k].input
       /\ calls[k].aligned = calls[1].aligned
       /\ calls[k].prob = calls[1].prob
       /\ calls[k].text = calls[1].text

C9_Witness ==
    /\ Len(calls) = 2
    /\ calls[2].text = "Customer Churn Probability"
    /\ calls[2].input.rows[1]["internet_service"] = NaN
    /\ Len(calls[2].aligned.cols) >= 5

\* C10: the reference columns are the training columns other than customer_id
\* and churn, and a reference column the transformed record lacks, such as a
\* raw feature the inference record does not supply, is scored as 0 without
\* any error from preprocess_input.
C10_SilentZeroFill ==
    /\ reference_columns.given =>
          reference_columns.list =
             SelectSeq(df.cols, LAMBDA c : c \notin {"customer_id", "churn"})
    /\ \A k \in 1..Len(calls) :
          (Complete(calls[k].input) /\ reference_columns.given) =>
             /\ calls[k].error.cell # "preprocess_input"
             /\ \A c \in Names(reference_columns.list) :
                   (c \notin RequiredFields /\ c \notin Names(calls[k].input.cols)
                    /\ c \notin Names(GetDummies(calls[k].input, "contract_type",
                                                 "internet_service").cols)
                    /\ c \notin {"avg_monthly_charge", "is_short_contract"}) =>
                      calls[k].aligned.rows[1][c] = Num(0)

C10_Witness ==
    \E k \in 1..Len(calls) :
       /\ calls[k].error.kind = "none"
       /\ InSeq("monthly_charges", reference_columns.list)
       /\ ~InSeq("monthly_charges", calls[k].input.cols)
       /\ calls[k].aligned.rows[1]["monthly_charges"] = Num(0)

====
